---- MODULE Spec2Model ----
(***************************************************************************)
(* Model of the pyATS MCP resource core (src/pyats_mcp/pyats_resources.py) *)
(* and of the tool layer above it (src/pyats_mcp/pyats_mcp_server.py):     *)
(* the testbed cache, the connection cache, the show-command validator,    *)
(* the config normalizer and the six device operations, each running in    *)
(* its own executor thread.                                                *)
(*                                                                         *)
(* Text is modelled as a sequence of one-character strings, so that the    *)
(* validator and the normalizer are computed character by character, as    *)
(* the Python code computes them.                                          *)
(***************************************************************************)
EXTENDS Integers, Sequences, FiniteSets, TLC

(***************************************************************************)
(* Bounds of the model.                                                    *)
(***************************************************************************)
\* time.time() readings are 0..MaxClock
MaxClock == 2
\* Testbed objects alive at the same time (loader.load builds a new one)
MaxGen == 2

\* The threads of the server that run the calls (run_in_executor): two
\* concurrent callers, or one caller at a time
Threads == {"t1", "t2"}
Sequential == {"t1"}

\* Python's None, where the value is otherwise a name
None == "None"

(***************************************************************************)
(* Characters and strings                                                  *)
(***************************************************************************)
LowerLetters ==
  {"a","b","c","d","e","f","g","h","i","j","k","l","m",
   "n","o","p","q","r","s","t","u","v","w","x","y","z"}

UpperLetters ==
  {"A","B","C","D","E","F","G","H","I","J","K","L","M",
   "N","O","P","Q","R","S","T","U","V","W","X","Y","Z"}

Digits == {"0","1","2","3","4","5","6","7","8","9"}

\* The characters str.strip() removes (the ASCII ones)
Whitespace == {" ", "\t", "\n", "\r", "\f"}

\* str.lower() on one character
LowerChar(c) ==
  CASE c = "A" -> "a" [] c = "B" -> "b" [] c = "C" -> "c" [] c = "D" -> "d"
    [] c = "E" -> "e" [] c = "F" -> "f" [] c = "G" -> "g" [] c = "H" -> "h"
    [] c = "I" -> "i" [] c = "J" -> "j" [] c = "K" -> "k" [] c = "L" -> "l"
    [] c = "M" -> "m" [] c = "N" -> "n" [] c = "O" -> "o" [] c = "P" -> "p"
    [] c = "Q" -> "q" [] c = "R" -> "r" [] c = "S" -> "s" [] c = "T" -> "t"
    [] c = "U" -> "u" [] c = "V" -> "v" [] c = "W" -> "w" [] c = "X" -> "x"
    [] c = "Y" -> "y" [] c = "Z" -> "z" [] OTHER -> c

\* str.lower()
Lower(s) == [i \in 1..Len(s) |-> LowerChar(s[i])]

SetMin(S) == CHOOSE x \in S : \A y \in S : x <= y
SetMax(S) == CHOOSE x \in S : \A y \in S : x >= y

\* str.strip(chars) / str.lstrip / str.rstrip for a set of characters
StripChars(s, chars) ==
  LET keep == {i \in 1..Len(s) : s[i] \notin chars}
  IN  IF keep = {} THEN <<>> ELSE SubSeq(s, SetMin(keep), SetMax(keep))

RStripChars(s, chars) ==
  LET keep == {i \in 1..Len(s) : s[i] \notin chars}
  IN  IF keep = {} THEN <<>> ELSE SubSeq(s, 1, SetMax(keep))

\* str.strip()
Strip(s) == StripChars(s, Whitespace)

\* str.startswith(prefix)
StartsWith(s, prefix) ==
  /\ Len(s) >= Len(prefix)
  /\ SubSeq(s, 1, Len(prefix)) = prefix

\* ch in s
Contains(s, ch) == \E i \in 1..Len(s) : s[i] = ch

(***************************************************************************)
(* Show command validation                                                 *)
(***************************************************************************)
SHOW_BLOCK_CHARS == {"|", ">", "<"}

SHOW_BLOCK_WORDS ==
  { <<"c","o","p","y">>,
    <<"d","e","l","e","t","e">>,
    <<"e","r","a","s","e">>,
    <<"r","e","l","o","a","d">>,
    <<"w","r","i","t","e">>,
    <<"c","o","n","f","i","g","u","r","e">>,
    <<"c","o","n","f">> }

\* The character class [a-zA-Z0-9_-] of the tokenizer
TokenChars == LowerLetters \cup UpperLetters \cup Digits \cup {"_", "-"}

\* re.findall(r"[a-zA-Z0-9_-]+", s): the maximal runs of token characters,
\* as the sequence of their <<first, last>> positions in order
TokenSpans(s) ==
  LET starts == {i \in 1..Len(s) :
                   /\ s[i] \in TokenChars
                   /\ (i = 1 \/ s[i-1] \notin TokenChars)}
      endOf(i) == SetMax({j \in i..Len(s) :
                            \A k \in i..j : s[k] \in TokenChars})
      RECURSIVE build(_)
      build(S) == IF S = {} THEN <<>>
                  ELSE LET i == SetMin(S)
                       IN  <<(<<i, endOf(i)>>)>> \o build(S \ {i})
  IN  build(starts)

Tokens(s) ==
  LET spans == TokenSpans(s)
  IN  [n \in 1..Len(spans) |-> SubSeq(s, spans[n][1], spans[n][2])]

\* The result None of validate_show_command
NoError == [reason |-> "None", term |-> <<>>]

\* validate_show_command with the keyword rule tried before the character rule
ValidateWordsFirst(command) ==
  LET cmd       == Strip(command)
      cmd_lower == Lower(cmd)
      tokens    == Tokens(cmd_lower)
      bad       == {n \in 1..Len(tokens) : tokens[n] \in SHOW_BLOCK_WORDS}
  IN  IF ~StartsWith(cmd_lower, <<"s","h","o","w">>)
        THEN [reason |-> "is not a 'show' command", term |-> <<>>]
      ELSE IF bad # {}
        THEN [reason |-> "contains disallowed term", term |-> tokens[SetMin(bad)]]
      ELSE IF \E ch \in SHOW_BLOCK_CHARS : Contains(cmd_lower, ch)
        THEN [reason |-> "contains disallowed pipe/redirection", term |-> <<>>]
      ELSE NoError

\* validate_show_command(command): NoError when the command is accepted, else
\* the rejection (the rule of the message, and the term it names)
validate_show_command(command) ==
  LET cmd       == Strip(command)
      cmd_lower == Lower(cmd)
      tokens    == Tokens(cmd_lower)
      bad       == {n \in 1..Len(tokens) : tokens[n] \in SHOW_BLOCK_WORDS}
  IN  IF ~StartsWith(cmd_lower, <<"s","h","o","w">>)
        THEN [reason |-> "is not a 'show' command", term |-> <<>>]
      ELSE IF \E ch \in SHOW_BLOCK_CHARS : Contains(cmd_lower, ch)
        THEN [reason |-> "contains disallowed pipe/redirection", term |-> <<>>]
      ELSE IF bad # {}
        THEN [reason |-> "contains disallowed term", term |-> tokens[SetMin(bad)]]
      ELSE NoError

(***************************************************************************)
(* Configuration normalization                                             *)
(***************************************************************************)
_WRAPPER_LINES ==
  { <<"c","o","n","f","i","g","u","r","e"," ","t","e","r","m","i","n","a","l">>,
    <<"c","o","n","f"," ","t">>,
    <<"c","o","n","f","i","g"," ","t">>,
    <<"c","o","n","f","i","g","u","r","e"," ","t">>,
    <<"e","n","d">> }

\* str.split(sep) for a one-character separator
RECURSIVE SplitOn(_, _)
SplitOn(s, sep) ==
  LET at == {i \in 1..Len(s) : s[i] = sep}
  IN  IF at = {} THEN <<s>>
      ELSE LET i == SetMin(at)
           IN  <<SubSeq(s, 1, i-1)>> \o SplitOn(SubSeq(s, i+1, Len(s)), sep)

\* sep.join(parts)
RECURSIVE Join(_, _)
Join(parts, sep) ==
  IF parts = <<>> THEN <<>>
  ELSE IF Len(parts) = 1 THEN parts[1]
  ELSE parts[1] \o <<sep>> \o Join(Tail(parts), sep)

\* The line boundaries of str.splitlines() (the ASCII ones of the alphabet)
LineBreaks == {"\n", "\r", "\f"}

\* str.splitlines(): "\r\n" is one boundary, and no empty last line
RECURSIVE splitlines(_)
splitlines(s) ==
  LET at == {i \in 1..Len(s) : s[i] \in LineBreaks}
  IN  IF s = <<>> THEN <<>>
      ELSE IF at = {} THEN <<s>>
      ELSE LET i    == SetMin(at)
               skip == IF s[i] = "\r" /\ i < Len(s) /\ s[i+1] = "\n"
                         THEN 2 ELSE 1
           IN  <<SubSeq(s, 1, i-1)>> \o splitlines(SubSeq(s, i+skip, Len(s)))

\* The leading run of blanks and tabs of a line
LeadingBlanks(line) ==
  LET stop == {i \in 1..Len(line) : line[i] \notin {" ", "\t"}}
  IN  IF stop = {} THEN line ELSE SubSeq(line, 1, SetMin(stop) - 1)

\* The longest common prefix of two strings
CommonPrefix(a, b) ==
  LET n    == IF Len(a) < Len(b) THEN Len(a) ELSE Len(b)
      same == {k \in 0..n : \A i \in 1..k : a[i] = b[i]}
  IN  SubSeq(a, 1, SetMax(same))

\* textwrap.dedent(text): lines of blanks and tabs only become empty, and
\* the margin common to the other lines is removed from every line
dedent(text) ==
  LET lines    == SplitOn(text, "\n")
      blanked  == [n \in 1..Len(lines) |->
                     IF LeadingBlanks(lines[n]) = lines[n] THEN <<>>
                     ELSE lines[n]]
      indented == {n \in 1..Len(blanked) : blanked[n] # <<>>}
      RECURSIVE margin(_, _)
      margin(S, m) == IF S = {} THEN m
                      ELSE LET n == SetMin(S)
                           IN  margin(S \ {n},
                                      CommonPrefix(m, LeadingBlanks(blanked[n])))
      mg == IF indented = {} THEN <<>>
            ELSE margin(indented, LeadingBlanks(blanked[SetMin(indented)]))
      cut == [n \in 1..Len(blanked) |->
                IF StartsWith(blanked[n], mg)
                  THEN SubSeq(blanked[n], Len(mg) + 1, Len(blanked[n]))
                  ELSE blanked[n]]
  IN  Join(cut, "\n")

\* The config payloads: None, a list of strings, or one string
ConfigNone      == [type |-> "None", lines |-> <<>>, text |-> <<>>]
ConfigList(ls)  == [type |-> "list", lines |-> ls,   text |-> <<>>]
ConfigText(txt) == [type |-> "str",  lines |-> <<>>, text |-> txt]

\* The loop body without the wrapper test on the parts of a semicolon line
NormalizeLineKeepsParts(line) ==
  LET s == RStripChars(line, {"\r", "\n"})
  IN  IF Strip(s) = <<>> THEN <<>>
      ELSE IF Contains(s, ";")
        THEN LET raw == SplitOn(s, ";")
             IN  SelectSeq([n \in 1..Len(raw) |-> Strip(raw[n])],
                           LAMBDA p : p # <<>>)
      ELSE IF Lower(Strip(s)) \in _WRAPPER_LINES THEN <<>>
      ELSE <<s>>

\* The loop body cutting a semicolon line at its first semicolon only
NormalizeLineSplitsOnce(line) ==
  LET s == RStripChars(line, {"\r", "\n"})
  IN  IF Strip(s) = <<>> THEN <<>>
      ELSE IF Contains(s, ";")
        THEN LET i     == SetMin({k \in 1..Len(s) : s[k] = ";"})
                 raw   == <<SubSeq(s, 1, i-1), SubSeq(s, i+1, Len(s))>>
                 parts == SelectSeq([n \in 1..Len(raw) |-> Strip(raw[n])],
                                    LAMBDA p : p # <<>>)
             IN  SelectSeq(parts, LAMBDA p : Lower(p) \notin _WRAPPER_LINES)
      ELSE IF Lower(Strip(s)) \in _WRAPPER_LINES THEN <<>>
      ELSE <<s>>

\* The loop body appending a plain line without its leading whitespace
NormalizeLineTrimmed(line) ==
  LET s == RStripChars(line, {"\r", "\n"})
  IN  IF Strip(s) = <<>> THEN <<>>
      ELSE IF Contains(s, ";")
        THEN LET raw   == SplitOn(s, ";")
                 parts == SelectSeq([n \in 1..Len(raw) |-> Strip(raw[n])],
                                    LAMBDA p : p # <<>>)
             IN  SelectSeq(parts, LAMBDA p : Lower(p) \notin _WRAPPER_LINES)
      ELSE IF Lower(Strip(s)) \in _WRAPPER_LINES THEN <<>>
      ELSE <<Strip(s)>>

\* One pass of the loop of _normalize_config_lines: what a raw line appends
NormalizeLine(line) ==
  LET s == RStripChars(line, {"\r", "\n"})
  IN  IF Strip(s) = <<>> THEN <<>>
      ELSE IF Contains(s, ";")
        THEN LET raw   == SplitOn(s, ";")
                 parts == SelectSeq([n \in 1..Len(raw) |-> Strip(raw[n])],
                                    LAMBDA p : p # <<>>)
             IN  SelectSeq(parts, LAMBDA p : Lower(p) \notin _WRAPPER_LINES)
      ELSE IF Lower(Strip(s)) \in _WRAPPER_LINES THEN <<>>
      ELSE <<s>>

\* _normalize_config_lines(config_commands)
_normalize_config_lines(config_commands) ==
  LET raw_lines ==
        IF config_commands.type = "list" THEN config_commands.lines
        ELSE splitlines(StripChars(dedent(config_commands.text), {"\n"}))
      RECURSIVE loop(_)
      loop(ls) == IF ls = <<>> THEN <<>>
                  ELSE NormalizeLine(Head(ls)) \o loop(Tail(ls))
  IN  IF config_commands.type = "None" THEN <<>> ELSE loop(raw_lines)

(***************************************************************************)
(* Environment: the testbed file, the devices, the requests                *)
(***************************************************************************)
\* The device names a request may carry
DeviceNames == {"r1", "r2"}

\* What loader.load(TESTBED_PATH) may find in the testbed file: the file can
\* be edited between two loads
Inventories == {{"r1", "r2"}, {"r1"}}

\* The values PYATS_MCP_TESTBED_CACHE_TTL and PYATS_MCP_CONN_CACHE_TTL take
TestbedCacheTTLs == {-1, 0, 1}
ConnCacheTTLs == {0, 1}

\* The commands of the requests
ShowVersion == <<"s","h","o","w"," ","v","e","r">>
ShowPiped   == <<"s","h","o","w"," ","r","u","n"," ","|"," ","i">>
PingCommand == <<"p","i","n","g"," ","1",".","1">>
LsCommand   == <<"l","s">>
ShowCommands == {ShowVersion, ShowPiped}

\* The config payloads of the requests
ConfigPayloads ==
  { ConfigList(<< <<"c","o","n","f"," ","t">>,
                  <<"i","n","t"," ","g","0">>,
                  <<" ","e","x","i","t">>,
                  <<"e","n","d">> >>),
    ConfigText(<<"c","o","n","f"," ","t",";","E","N","D","\n">>) }

\* A device object of a testbed: the testbed it belongs to and its name.
\* Each loader.load builds new device objects.
NoDevice == [gen |-> 0, name |-> None]
DeviceObjects == [gen : 1..MaxGen, name : DeviceNames]

(***************************************************************************)
(* State                                                                   *)
(***************************************************************************)
VARIABLES
  now,               \* the reading of time.time()
  _CACHE_TTL_S,      \* testbed cache TTL
  _CONN_CACHE_TTL_S, \* connection cache TTL
  _TESTBED_CACHE,    \* {"loaded_at", "tb"}, with the devices of tb
  _CONN_CACHE,       \* device name -> {"device", "last_used"}
  connected,         \* the device objects whose is_connected() is True
  th,                \* the threads: position and locals of the running call
  KEEP_ARTIFACTS,    \* the artifact retention flag
  disk,              \* the run directories under ARTIFACTS_DIR and their files
  fn                 \* a call of the validator or of the normalizer by itself

\* The state that the device operations neither read nor write
Apart == <<KEEP_ARTIFACTS, disk, fn>>

vars == <<now, _CACHE_TTL_S, _CONN_CACHE_TTL_S, Apart, _TESTBED_CACHE,
          _CONN_CACHE,
          connected, th>>

NoOutcome == [status |-> "pending"]

\* No run directory: names are test_<reading of the clock in ms>
NoDir == -1

\* No subprocess has run
NoProc == [returncode |-> -1, stdout |-> <<>>, report |-> "none"]

\* No call of a function by itself
NoCall == [pc |-> "none", arg |-> <<>>, ret |-> <<>>, again |-> <<>>]

\* An empty ARTIFACTS_DIR
EmptyDisk == [dirs |-> {}, files |-> {}]

\* A thread that runs no call
IdleThread ==
  [pc          |-> "idle",
   kind        |-> None,      \* the operation
   device_name |-> None,
   command     |-> <<>>,      \* the command argument
   lines       |-> <<>>,      \* the normalized config lines
   now0        |-> 0,         \* `now` of _load_testbed
   dev         |-> NoDevice,  \* `device` of _get_device
   device      |-> NoDevice,  \* `device` of the operation
   outcome     |-> NoOutcome, \* the dict the operation returns
   nConnect    |-> 0,         \* calls of device.connect by _get_device
   nRelease    |-> 0,         \* calls of _disconnect_device on a session
   nDisconnect |-> 0,         \* calls of device.disconnect by the release
   disconnectRaised |-> FALSE, \* that device.disconnect raised
   raised      |-> None,      \* the exception the operation caught
   run_dir     |-> NoDir,     \* `run_dir` of _run_test_script
   proc        |-> NoProc]    \* what the subprocess of the script run did

Init ==
  /\ now = 0
  /\ _CACHE_TTL_S \in TestbedCacheTTLs
  /\ _CONN_CACHE_TTL_S \in ConnCacheTTLs
  /\ _TESTBED_CACHE = [loaded_at |-> 0, tb |-> 0, devices |-> {}]
  /\ _CONN_CACHE = [n \in {} |-> 0]
  /\ connected = {}
  /\ th = [t \in Threads |-> IdleThread]
  /\ KEEP_ARTIFACTS = TRUE
  /\ disk = EmptyDisk
  /\ fn = NoCall

\* time passes
Tick ==
  /\ now < MaxClock
  /\ now' = now + 1
  /\ UNCHANGED <<_CACHE_TTL_S, _CONN_CACHE_TTL_S, Apart, _TESTBED_CACHE,
                 _CONN_CACHE,
                 connected, th>>

Set(t, rec) == th' = [th EXCEPT ![t] = rec]

(***************************************************************************)
(* Outcomes                                                                *)
(***************************************************************************)
\* The dict of the `except Exception as e` clause of each operation
ErrorOutcome(r, err) ==
  CASE r.kind \in {"show", "ping", "linux"} ->
         [status |-> "error", device |-> r.device_name,
          command |-> r.command, error |-> err]
    [] r.kind = "configure" ->
         [status |-> "error", device |-> r.device_name,
          lines_sent |-> r.lines, error |-> err]
    [] r.kind \in {"learn_config", "learn_logging"} ->
         [status |-> "error", device |-> r.device_name, error |-> err]
    [] OTHER -> \* pyats_list_devices
         [status |-> "error", error |-> err]

\* The dict an operation returns when execute succeeded; parser is what
\* get_parser and parser.parse did ("none": no parser, "raise": parse failed)
CompletedOutcome(r, parser) ==
  CASE r.kind \in {"show", "ping"} ->
         IF parser = "ok"
           THEN [status |-> "completed", device |-> r.device_name,
                 command |-> r.command, parsed_output |-> "parsed",
                 raw_output |-> "cleaned", parser_used |-> "parser_cls"]
           ELSE [status |-> "completed", device |-> r.device_name,
                 command |-> r.command, raw_output |-> "cleaned",
                 parser_used |-> None]
    [] r.kind = "linux" ->
         [status |-> "completed", device |-> r.device_name,
          command |-> r.command, output |-> "cleaned"]
    [] r.kind = "configure" ->
         [status |-> "completed", device |-> r.device_name,
          lines_sent |-> r.lines, raw_output |-> "cleaned"]
    [] r.kind = "learn_config" ->
         [status |-> "completed", device |-> r.device_name,
          running_config |-> "cleaned"]
    [] OTHER -> \* learn_logging
         [status |-> "completed", device |-> r.device_name,
          logging |-> "cleaned"]

\* An exception reaches the `except` clause of the operation while its
\* `device` is still None: the dict is built, and the `finally` clause calls
\* _disconnect_device(None), which returns at once
Caught(r, err) ==
  [r EXCEPT !.pc = "done", !.now0 = 0, !.dev = NoDevice, !.nConnect = 0,
            !.raised = err, !.outcome = ErrorOutcome(r, err)]

(***************************************************************************)
(* The operations: entry                                                   *)
(***************************************************************************)
Others == <<now, _CACHE_TTL_S, _CONN_CACHE_TTL_S, Apart, _TESTBED_CACHE,
            _CONN_CACHE,
            connected>>

\* A show operation that goes to _get_device without validating the command
RunShowUnvalidated(t, device_name, command) ==
  /\ th[t].pc = "idle"
  /\ Set(t, [IdleThread EXCEPT !.kind = "show", !.device_name = device_name,
                               !.command = command, !.pc = "load"])
  /\ UNCHANGED <<now, _CACHE_TTL_S, _CONN_CACHE_TTL_S, KEEP_ARTIFACTS, disk, fn,
                 _TESTBED_CACHE, _CONN_CACHE, connected>>

\* run_show_command_async._run, up to the call of _get_device
run_show_command_async(t, device_name, command) ==
  /\ th[t].pc = "idle"
  /\ LET val_err == validate_show_command(command)
         r == [IdleThread EXCEPT !.kind = "show", !.device_name = device_name,
                                 !.command = command]
     IN  IF val_err # NoError
           THEN Set(t, [r EXCEPT !.pc = "done",
                          !.outcome = [status |-> "error",
                                       error |-> val_err.reason]])
           ELSE Set(t, [r EXCEPT !.pc = "load"])
  /\ UNCHANGED Others

\* apply_device_configuration_async._apply, up to the call of _get_device
apply_device_configuration_async(t, device_name, config_commands) ==
  /\ th[t].pc = "idle"
  /\ LET lines == _normalize_config_lines(config_commands)
         r == [IdleThread EXCEPT !.kind = "configure",
                                 !.device_name = device_name, !.lines = lines]
     IN  IF lines = <<>>
           THEN Set(t, [r EXCEPT !.pc = "done",
                          !.outcome = [status |-> "error",
                                       error |-> "No valid configuration lines provided."]])
           ELSE Set(t, [r EXCEPT !.pc = "load"])
  /\ UNCHANGED Others

\* execute_learn_config_async._learn, up to the call of _get_device
execute_learn_config_async(t, device_name) ==
  /\ th[t].pc = "idle"
  /\ Set(t, [IdleThread EXCEPT !.kind = "learn_config",
                               !.device_name = device_name, !.pc = "load"])
  /\ UNCHANGED Others

\* execute_learn_logging_async._learn, up to the call of _get_device
execute_learn_logging_async(t, device_name) ==
  /\ th[t].pc = "idle"
  /\ Set(t, [IdleThread EXCEPT !.kind = "learn_logging",
                               !.device_name = device_name, !.pc = "load"])
  /\ UNCHANGED Others

\* run_ping_command_async._ping, up to the call of _get_device
run_ping_command_async(t, device_name, command) ==
  /\ th[t].pc = "idle"
  /\ Set(t, [IdleThread EXCEPT !.kind = "ping", !.device_name = device_name,
                               !.command = command, !.pc = "load"])
  /\ UNCHANGED Others

\* run_linux_command_async._exec, up to the call of _get_device
run_linux_command_async(t, device_name, command) ==
  /\ th[t].pc = "idle"
  /\ Set(t, [IdleThread EXCEPT !.kind = "linux", !.device_name = device_name,
                               !.command = command, !.pc = "load"])
  /\ UNCHANGED Others

\* pyats_list_devices, up to the call of _load_testbed
pyats_list_devices(t) ==
  /\ th[t].pc = "idle"
  /\ Set(t, [IdleThread EXCEPT !.kind = "list_devices", !.pc = "load"])
  /\ UNCHANGED Others

(***************************************************************************)
(* _load_testbed and the device lookup of _get_device                      *)
(***************************************************************************)
\* The testbed objects something still refers to
GensInUse ==
  {_TESTBED_CACHE.tb}
    \cup {th[t].dev.gen : t \in Threads}
    \cup {th[t].device.gen : t \in Threads}
    \cup {_CONN_CACHE[n].device.gen : n \in DOMAIN _CONN_CACHE}
    \cup {d.gen : d \in connected}

\* A lookup that takes the device for present in the testbed
AfterLoadUnchecked(r, tb, devices) ==
  IF r.kind = "list_devices"
    THEN [r EXCEPT !.pc = "done", !.now0 = 0,
                   !.outcome = [status |-> "completed", devices |-> devices]]
    ELSE [r EXCEPT !.pc = "lookup", !.now0 = 0,
                   !.dev = [gen |-> tb, name |-> r.device_name]]

\* What follows `tb = _load_testbed()` in the caller, with the thread record
\* r and the devices of tb: pyats_list_devices builds its dict; _get_device
\* looks the device up and raises ValueError when it is not there
AfterLoad(r, tb, devices) ==
  IF r.kind = "list_devices"
    THEN [r EXCEPT !.pc = "done", !.now0 = 0,
                   !.outcome = [status |-> "completed", devices |-> devices]]
  ELSE IF r.device_name \notin devices
    THEN Caught(r, "not found in testbed")
  ELSE [r EXCEPT !.pc = "lookup", !.now0 = 0,
                 !.dev = [gen |-> tb, name |-> r.device_name]]

\* A reload test that keeps the first testbed for ever
MustReloadOnce(cache, ttl, t0) == cache.tb = 0

\* The reload test of _load_testbed
MustReload(cache, ttl, t0) ==
  \/ cache.tb = 0
  \/ (t0 - cache.loaded_at) > ttl

\* _load_testbed up to the call of loader.load, or to its return when the
\* cached testbed is used
_load_testbed(t) ==
  /\ th[t].pc = "load"
  /\ IF MustReload(_TESTBED_CACHE, _CACHE_TTL_S, now)
       THEN Set(t, [th[t] EXCEPT !.pc = "loading", !.now0 = now])
       ELSE Set(t, AfterLoad(th[t], _TESTBED_CACHE.tb, _TESTBED_CACHE.devices))
  /\ UNCHANGED Others

\* loader.load returns a new testbed, which _load_testbed stores and returns
loader_load(t) ==
  /\ th[t].pc = "loading"
  /\ \E g \in 1..MaxGen, devices \in Inventories :
       /\ g \notin GensInUse
       /\ \A h \in 1..MaxGen : h \notin GensInUse => g <= h
       /\ _TESTBED_CACHE' = [loaded_at |-> th[t].now0, tb |-> g,
                             devices |-> devices]
       /\ Set(t, AfterLoad(th[t], g, devices))
  /\ UNCHANGED <<now, _CACHE_TTL_S, _CONN_CACHE_TTL_S, Apart, _CONN_CACHE,
                 connected>>

\* A failed load that forgets the testbed it had
LoadRaisesForgets(t) ==
  /\ th[t].pc = "loading"
  /\ Set(t, Caught(th[t], "load error"))
  /\ _TESTBED_CACHE' = [loaded_at |-> 0, tb |-> 0, devices |-> {}]
  /\ UNCHANGED <<now, _CACHE_TTL_S, _CONN_CACHE_TTL_S, Apart, _CONN_CACHE,
                 connected>>

\* loader.load raises: the testbed file is missing or malformed
loader_load_raises(t) ==
  /\ th[t].pc = "loading"
  /\ Set(t, Caught(th[t], "load error"))
  /\ UNCHANGED Others

(***************************************************************************)
(* The connection cache                                                    *)
(***************************************************************************)
\* dict operations
Put(cache, name, entry) ==
  [n \in DOMAIN cache \cup {name} |-> IF n = name THEN entry ELSE cache[n]]
Drop(cache, names) == [n \in DOMAIN cache \ names |-> cache[n]]

\* An expiry test that takes an entry of age TTL for expired
ExpiredAtTTL(cache, ttl, t0) ==
  {n \in DOMAIN cache : (t0 - cache[n].last_used) >= ttl}

\* The `expired` list of _evict_expired_connections
Expired(cache, ttl, t0) ==
  {n \in DOMAIN cache : (t0 - cache[n].last_used) > ttl}

\* The expired entries whose device.disconnect() the sweep calls
SweepDisconnects(cache, conn, ttl, t0) ==
  {n \in Expired(cache, ttl, t0) : cache[n].device \in conn}

\* _evict_expired_connections(): the cache and the connected devices after
\* the sweep; `failing` are the entries whose device.disconnect() raises
\* (the exception is swallowed, the device stays as it is)
_evict_expired_connections(cache, conn, ttl, t0, failing) ==
  IF ttl <= 0
    THEN [cache |-> cache, connected |-> conn]
    ELSE LET expired == Expired(cache, ttl, t0)
         IN  [cache     |-> Drop(cache, expired),
              connected |-> conn \ {cache[n].device : n \in expired \ failing}]

\* A cache hit that does not ask the cached device whether it is connected
CacheHitUnchecked(cache, conn, device_name) == device_name \in DOMAIN cache

\* The test of the cache hit of _get_device
CacheHit(cache, conn, device_name) ==
  /\ device_name \in DOMAIN cache
  /\ cache[device_name].device \in conn

\* _get_device from the sweep to the test `if not device.is_connected()`:
\* the cached device is returned to the operation on a hit
_get_device_lookup(t) ==
  /\ th[t].pc = "lookup"
  /\ \E failing \in SUBSET SweepDisconnects(_CONN_CACHE, connected,
                                            _CONN_CACHE_TTL_S, now) :
       LET swept == IF _CONN_CACHE_TTL_S > 0
                      THEN _evict_expired_connections(
                             _CONN_CACHE, connected, _CONN_CACHE_TTL_S, now,
                             failing)
                      ELSE [cache |-> _CONN_CACHE, connected |-> connected]
           name  == th[t].device_name
       IN  /\ _CONN_CACHE_TTL_S <= 0 => failing = {}
           /\ connected' = swept.connected
           /\ IF _CONN_CACHE_TTL_S > 0 /\ CacheHit(swept.cache, swept.connected, name)
                THEN /\ _CONN_CACHE' =
                          [swept.cache EXCEPT ![name].last_used = now]
                     /\ Set(t, [th[t] EXCEPT !.pc = "exec", !.dev = NoDevice,
                                  !.device = swept.cache[name].device])
                ELSE /\ _CONN_CACHE' = swept.cache
                     /\ IF th[t].dev \in swept.connected
                          THEN Set(t, [th[t] EXCEPT !.pc = "insert"])
                          ELSE Set(t, [th[t] EXCEPT !.pc = "connect"])
  /\ UNCHANGED <<now, _CACHE_TTL_S, _CONN_CACHE_TTL_S, Apart, _TESTBED_CACHE>>

\* device.connect(...) returns
device_connect(t) ==
  /\ th[t].pc = "connect"
  /\ connected' = connected \cup {th[t].dev}
  /\ Set(t, [th[t] EXCEPT !.pc = "insert", !.nConnect = @ + 1])
  /\ UNCHANGED <<now, _CACHE_TTL_S, _CONN_CACHE_TTL_S, Apart, _TESTBED_CACHE,
                 _CONN_CACHE>>

\* device.connect(...) raises: the device is unreachable
device_connect_raises(t) ==
  /\ th[t].pc = "connect"
  /\ Set(t, Caught([th[t] EXCEPT !.nConnect = @ + 1], "connect error"))
  /\ UNCHANGED Others

\* An end of _get_device that leaves the cache as it is
InsertedNowhere(cache, ttl, device_name, device, t0) == cache

\* The cache after the insertion at the end of _get_device
Inserted(cache, ttl, device_name, device, t0) ==
  IF ttl > 0
    THEN Put(cache, device_name, [device |-> device, last_used |-> t0])
    ELSE cache

\* _get_device from the insertion into the cache to `return device`
_get_device_return(t) ==
  /\ th[t].pc = "insert"
  /\ _CONN_CACHE' = Inserted(_CONN_CACHE, _CONN_CACHE_TTL_S,
                             th[t].device_name, th[t].dev, now)
  /\ Set(t, [th[t] EXCEPT !.pc = "exec", !.device = th[t].dev,
                          !.dev = NoDevice, !.nConnect = 0])
  /\ UNCHANGED <<now, _CACHE_TTL_S, _CONN_CACHE_TTL_S, Apart, _TESTBED_CACHE,
                 connected>>

(***************************************************************************)
(* device.execute / device.configure and the result of the operation       *)
(***************************************************************************)
\* What get_parser and parser.parse may do for the operation
ParserResults(kind) ==
  IF kind \in {"show", "ping"} THEN {"none", "ok", "raise"} ELSE {"none"}

\* device.execute / device.configure returns the output; the operation
\* cleans it, parses it when it can, and builds its dict
device_execute(t) ==
  /\ th[t].pc = "exec"
  /\ th[t].device \in connected
  /\ \E parser \in ParserResults(th[t].kind) :
       Set(t, [th[t] EXCEPT !.pc = "release",
                            !.outcome = CompletedOutcome(th[t], parser)])
  /\ UNCHANGED Others

\* An operation without the `finally` clause: after the exception it
\* returns its dict at once
ExecuteRaisesNoFinally(t) ==
  /\ th[t].pc = "exec"
  /\ \E err \in {"execute error", "timeout"} :
       Set(t, [th[t] EXCEPT !.pc = "done", !.raised = err,
                            !.outcome = ErrorOutcome(th[t], err)])
  /\ UNCHANGED Others

\* device.execute / device.configure raises or times out; the session stays
\* as it is
device_execute_raises(t) ==
  /\ th[t].pc = "exec"
  /\ \E err \in {"execute error", "timeout"} :
       Set(t, [th[t] EXCEPT !.pc = "release", !.raised = err,
                            !.outcome = ErrorOutcome(th[t], err)])
  /\ UNCHANGED Others

\* The device disconnects during device.execute / device.configure, which
\* raises
device_execute_drops(t) ==
  /\ th[t].pc = "exec"
  /\ th[t].device \in connected
  /\ connected' = connected \ {th[t].device}
  /\ Set(t, [th[t] EXCEPT !.pc = "release", !.raised = "connection lost",
                          !.outcome = ErrorOutcome(th[t], "connection lost")])
  /\ UNCHANGED <<now, _CACHE_TTL_S, _CONN_CACHE_TTL_S, Apart, _TESTBED_CACHE,
                 _CONN_CACHE>>

(***************************************************************************)
(* _disconnect_device                                                      *)
(***************************************************************************)
\* A release that disconnects whatever the cache TTL is
DisconnectIgnoringCache(device, force, cache, conn, ttl, t0, raises) ==
  IF device # NoDevice /\ device \in conn
    THEN [cache |-> cache,
          connected |-> IF raises THEN conn ELSE conn \ {device},
          disconnect |-> TRUE]
    ELSE [cache |-> cache, connected |-> conn, disconnect |-> FALSE]

\* A release that only refreshes last_used, whatever the cache TTL is
ReleaseRefreshOnly(device, force, cache, conn, ttl, t0, raises) ==
  [cache |-> IF device # NoDevice /\ device.name \in DOMAIN cache
               THEN [cache EXCEPT ![device.name].last_used = t0]
               ELSE cache,
   connected |-> conn, disconnect |-> FALSE]

\* _disconnect_device(device, force): the cache and the connected devices
\* after the call, and whether it called device.disconnect(); `raises` tells
\* that device.disconnect() raises (the exception is logged, the device stays
\* as it is)
_disconnect_device(device, force, cache, conn, ttl, t0, raises) ==
  IF device = NoDevice
    THEN [cache |-> cache, connected |-> conn, disconnect |-> FALSE]
  ELSE IF ttl > 0 /\ ~force
    THEN [cache |-> IF device.name \in DOMAIN cache
                      THEN [cache EXCEPT ![device.name].last_used = t0]
                      ELSE cache,
          connected |-> conn, disconnect |-> FALSE]
  ELSE IF device \in conn
    THEN [cache |-> cache,
          connected |-> IF raises THEN conn ELSE conn \ {device},
          disconnect |-> TRUE]
  ELSE [cache |-> cache, connected |-> conn, disconnect |-> FALSE]

\* The `finally` clause of the operation: _disconnect_device(device)
release(t) ==
  /\ th[t].pc = "release"
  /\ \E raises \in BOOLEAN :
       LET after == _disconnect_device(th[t].device, FALSE, _CONN_CACHE,
                                       connected, _CONN_CACHE_TTL_S, now,
                                       raises)
       IN  /\ raises => after.disconnect
           /\ _CONN_CACHE' = after.cache
           /\ connected' = after.connected
           /\ Set(t, [th[t] EXCEPT !.pc = "done", !.nRelease = @ + 1,
                        !.nDisconnect = IF after.disconnect THEN @ + 1 ELSE @,
                        !.disconnectRaised = raises])
  /\ UNCHANGED <<now, _CACHE_TTL_S, _CONN_CACHE_TTL_S, Apart, _TESTBED_CACHE>>

\* The operation returns its dict to the tool, and the thread is free
return(t) ==
  /\ th[t].pc = "done"
  /\ Set(t, IdleThread)
  /\ UNCHANGED Others

(***************************************************************************)
(* The script safety gate and the script runner                            *)
(***************************************************************************)
\* pat in s
HasSubstring(s, pat) ==
  \E i \in 1..(Len(s) - Len(pat) + 1) : SubSeq(s, i, i + Len(pat) - 1) = pat

BANNED_IMPORTS ==
  << <<"s","o","c","k","e","t">>,
     <<"r","e","q","u","e","s","t","s">>,
     <<"u","r","l","l","i","b">>,
     <<"h","t","t","p","x">>,
     <<"t","e","l","n","e","t","l","i","b">>,
     <<"p","a","r","a","m","i","k","o">>,
     <<"n","e","t","m","i","k","o">> >>

\* The text each regular expression of BANNED_PATTERNS matches (every one of
\* them is an escaped literal), in the order of the list
BANNED_PATTERNS ==
  << <<".","c","o","n","n","e","c","t","(">>,
     <<".","d","i","s","c","o","n","n","e","c","t","(">>,
     <<"T","e","s","t","b","e","d","(">>,
     <<"l","o","a","d","e","r",".","l","o","a","d">>,
     <<"s","u","b","p","r","o","c","e","s","s",".">>,
     <<"o","s",".","s","y","s","t","e","m">>,
     <<"e","v","a","l","(">>,
     <<"e","x","e","c","(">>,
     <<"_","_","i","m","p","o","r","t","_","_">> >>

\* The result None of reject_unsafe_script
NoReason == [kind |-> "None", name |-> <<>>]

\* reject_unsafe_script(script): NoReason when nothing banned is found, else
\* the first banned import or, when there is none, the first banned pattern
reject_unsafe_script(script) ==
  LET lower == Lower(script)
      imps  == {n \in 1..Len(BANNED_IMPORTS) :
                  \/ HasSubstring(lower, <<"i","m","p","o","r","t"," ">>
                                            \o BANNED_IMPORTS[n])
                  \/ HasSubstring(lower, <<"f","r","o","m"," ">>
                                            \o BANNED_IMPORTS[n])}
      pats  == {n \in 1..Len(BANNED_PATTERNS) :
                  HasSubstring(lower, Lower(BANNED_PATTERNS[n]))}
  IN  IF imps # {}
        THEN [kind |-> "banned import", name |-> BANNED_IMPORTS[SetMin(imps)]]
      ELSE IF pats # {}
        THEN [kind |-> "banned pattern", name |-> BANNED_PATTERNS[SetMin(pats)]]
      ELSE NoReason

\* _extract_overall_result(stdout): the verdict of the first line that
\* names one
_extract_overall_result(stdout) ==
  LET lines   == splitlines(stdout)
      low(n)  == Lower(lines[n])
      passed  == {n \in 1..Len(lines) :
                    HasSubstring(low(n), <<"p","a","s","s","e","d">>) /\ HasSubstring(low(n), <<"o","v","e","r","a","l","l">>)}
      failed  == {n \in 1..Len(lines) :
                    HasSubstring(low(n), <<"f","a","i","l","e","d">>) /\ HasSubstring(low(n), <<"o","v","e","r","a","l","l">>)}
  IN  IF passed \cup failed = {} THEN "UNKNOWN"
      ELSE IF SetMin(passed \cup failed) \in passed THEN "PASSED"
      ELSE "FAILED"

\* The scripts of the requests: empty, blank, with a banned import, with a
\* banned pattern, and one that passes the gate
EmptyScript   == <<>>
BlankScript   == <<" ","\n">>
ImportScript  == <<"I","m","p","o","r","t"," ","S","o","c","k","e","t">>
PatternScript == <<"x","=","E","V","A","L","(","1",")">>
SafeScript    == <<"p","a","s","s">>
Scripts == {EmptyScript, BlankScript, ImportScript, PatternScript, SafeScript}

\* What the pyats subprocess may do before it exits: its return code, its
\* stdout, and the report file it writes ("missing": none)
StdoutPassed == <<"o","k","\n","O","v","e","r","a","l","l",":"," ","P","A","S","S","E","D">>
StdoutFailed == <<"O","V","E","R","A","L","L"," ","f","a","i","l","e","d">>
ProcResults ==
  { [returncode |-> 0, stdout |-> StdoutPassed, report |-> "valid"],
    [returncode |-> 0, stdout |-> StdoutPassed, report |-> "missing"],
    [returncode |-> 1, stdout |-> StdoutFailed, report |-> "valid"],
    [returncode |-> 1, stdout |-> StdoutFailed, report |-> "invalid"],
    [returncode |-> 1, stdout |-> <<>>,         report |-> "empty"],
    [returncode |-> 1, stdout |-> <<>>,         report |-> "missing"] }

\* The files of a run directory
ScriptFile == "test_script.py"
JobFile    == "job.py"
ReportFile == "report.json"

\* Path.write_text: the file gets the content, whatever it held
WriteFile(files, dir, name, content) ==
  {f \in files : ~(f.dir = dir /\ f.name = name)}
    \cup {[dir |-> dir, name |-> name, content |-> content]}

\* What report_path holds: "missing" when there is no such file
ReadFile(files, dir, name) ==
  IF \E f \in files : f.dir = dir /\ f.name = name
    THEN (CHOOSE f \in files : f.dir = dir /\ f.name = name).content
    ELSE "missing"

\* shutil.rmtree(run_dir)
rmtree(d, dir) ==
  [dirs |-> d.dirs \ {dir}, files |-> {f \in d.files : f.dir # dir}]

\* What the script runs leave alone
NotDisk == <<now, _CACHE_TTL_S, _CONN_CACHE_TTL_S, KEEP_ARTIFACTS, fn,
             _TESTBED_CACHE, _CONN_CACHE, connected>>

\* A tool that runs every script it is given
RunUngated(t, test_script_content) ==
  /\ th[t].pc = "idle"
  /\ Set(t, [IdleThread EXCEPT !.kind = "script", !.pc = "mkdir",
                               !.command = test_script_content])
  /\ UNCHANGED disk
  /\ UNCHANGED NotDisk

\* pyats_run_dynamic_test, up to the call of _run_test_script: the empty
\* script and the script the gate rejects are answered at once
pyats_run_dynamic_test(t, test_script_content) ==
  /\ th[t].pc = "idle"
  /\ LET r      == [IdleThread EXCEPT !.kind = "script",
                                      !.command = test_script_content]
         reason == reject_unsafe_script(test_script_content)
     IN  IF Strip(test_script_content) = <<>>
           THEN Set(t, [r EXCEPT !.pc = "done",
                          !.outcome = [status |-> "error",
                                       error |-> "Empty test script content provided."]])
         ELSE IF reason # NoReason
           THEN Set(t, [r EXCEPT !.pc = "done",
                          !.outcome = [status |-> "error",
                                       error |-> reason.kind]])
         ELSE Set(t, [r EXCEPT !.pc = "mkdir"])
  /\ UNCHANGED disk
  /\ UNCHANGED NotDisk

\* _run_test_script: run_dir is named after the clock reading, and
\* mkdir(exist_ok=True) makes it unless it is there
mkdir(t) ==
  /\ th[t].pc = "mkdir"
  /\ disk' = [disk EXCEPT !.dirs = @ \cup {now}]
  /\ Set(t, [th[t] EXCEPT !.pc = "write", !.run_dir = now])
  /\ UNCHANGED NotDisk

\* mkdir raises, outside the `try` of _run_test_script: the `except` of the
\* tool answers
mkdir_raises(t) ==
  /\ th[t].pc = "mkdir"
  /\ Set(t, [th[t] EXCEPT !.pc = "done", !.raised = "mkdir error",
                          !.outcome = [status |-> "error",
                                       error |-> "mkdir error"]])
  /\ UNCHANGED disk
  /\ UNCHANGED NotDisk

\* The dict of the `except Exception` clause of _run_test_script, and of
\* its timeout clause
RunError(r, err) ==
  [r EXCEPT !.pc = "done", !.raised = err,
            !.outcome = [status |-> "error", error |-> err,
                         artifacts_dir |-> r.run_dir]]

\* The script and the job file are written
write_text(t) ==
  /\ th[t].pc = "write"
  /\ th[t].run_dir \in disk.dirs
  /\ disk' = [disk EXCEPT !.files =
                WriteFile(WriteFile(@, th[t].run_dir, ScriptFile, "script"),
                          th[t].run_dir, JobFile, "job")]
  /\ Set(t, [th[t] EXCEPT !.pc = "spawn"])
  /\ UNCHANGED NotDisk

\* write_text raises
write_text_raises(t) ==
  /\ th[t].pc = "write"
  /\ Set(t, RunError(th[t], "write error"))
  /\ UNCHANGED disk
  /\ UNCHANGED NotDisk

\* A reader that takes whatever the report file holds for parsed data
ReportDataUnparsed(found) ==
  IF found = "missing" THEN None ELSE "report_data"

\* report_data: the parsed report, or None when report_path does not exist,
\* is empty, or json.loads raises
ReportData(found) == IF found = "valid" THEN "report_data" ELSE None

\* subprocess.run returns within the timeout; the report file is read and
\* the payload built
subprocess_run(t) ==
  /\ th[t].pc = "spawn"
  /\ \E res \in ProcResults :
       LET dir    == th[t].run_dir
           files  == IF res.report = "missing" THEN disk.files
                     ELSE WriteFile(disk.files, dir, ReportFile, res.report)
           found  == ReadFile(files, dir, ReportFile)
       IN  /\ res.report # "missing" => dir \in disk.dirs
           /\ disk' = [disk EXCEPT !.files = files]
           /\ Set(t, [th[t] EXCEPT
                 !.pc = "retain",
                 !.proc = [res EXCEPT !.report = found],
                 !.outcome =
                   [status |-> "completed",
                    returncode |-> res.returncode,
                    overall_result |-> _extract_overall_result(res.stdout),
                    stdout |-> res.stdout,
                    stderr |-> "stderr",
                    report |-> ReportData(found),
                    artifacts_dir |-> dir,
                    paths |-> [script |-> <<dir, ScriptFile>>,
                               job |-> <<dir, JobFile>>,
                               report |-> <<dir, ReportFile>>]]])
  /\ UNCHANGED NotDisk

\* subprocess.run raises TimeoutExpired
subprocess_timeout(t) ==
  /\ th[t].pc = "spawn"
  /\ Set(t, RunError(th[t], "timed out"))
  /\ UNCHANGED disk
  /\ UNCHANGED NotDisk

\* subprocess.run raises something else: the pyats binary cannot be started
subprocess_raises(t) ==
  /\ th[t].pc = "spawn"
  /\ Set(t, RunError(th[t], "subprocess error"))
  /\ UNCHANGED disk
  /\ UNCHANGED NotDisk

\* The retention of the artifacts, and `return payload`; rmtree ignores its
\* errors, so it may leave the directory
retain(t) ==
  /\ th[t].pc = "retain"
  /\ \E removed \in BOOLEAN :
       /\ KEEP_ARTIFACTS => ~removed
       /\ disk' = IF removed THEN rmtree(disk, th[t].run_dir) ELSE disk
  /\ Set(t, [th[t] EXCEPT !.pc = "done", !.proc = NoProc])
  /\ UNCHANGED NotDisk

(***************************************************************************)
(* The system                                                              *)
(***************************************************************************)
\* The steps of a running call
Step(t) ==
  \/ _load_testbed(t)
  \/ loader_load(t)
  \/ loader_load_raises(t)
  \/ _get_device_lookup(t)
  \/ device_connect(t)
  \/ device_connect_raises(t)
  \/ _get_device_return(t)
  \/ device_execute(t)
  \/ device_execute_raises(t)
  \/ device_execute_drops(t)
  \/ release(t)
  \/ return(t)

\* One caller at a time, every kind of request
Next ==
  \/ Tick
  \/ \E t \in Sequential :
       \/ \E n \in DeviceNames :
            \/ \E c \in ShowCommands : run_show_command_async(t, n, c)
            \/ \E c \in ConfigPayloads :
                 apply_device_configuration_async(t, n, c)
            \/ execute_learn_config_async(t, n)
            \/ execute_learn_logging_async(t, n)
            \/ run_ping_command_async(t, n, PingCommand)
            \/ run_linux_command_async(t, n, LsCommand)
       \/ pyats_list_devices(t)
       \/ Step(t)

Spec == Init /\ [][Next]_vars

\* Two concurrent callers, learn-config requests
NextConc ==
  \/ Tick
  \/ \E t \in Threads :
       \/ \E n \in DeviceNames : execute_learn_config_async(t, n)
       \/ Step(t)

\* The concurrent callers run with the testbed cached for one clock reading
InitConc == Init /\ _CACHE_TTL_S = 1

SpecConc == InitConc /\ [][NextConc]_vars

\* The steps of a running script
StepScript(t) ==
  \/ mkdir(t)
  \/ mkdir_raises(t)
  \/ write_text(t)
  \/ write_text_raises(t)
  \/ subprocess_run(t)
  \/ subprocess_timeout(t)
  \/ subprocess_raises(t)
  \/ retain(t)
  \/ return(t)

\* One caller of the script tool at a time
NextScript ==
  \/ Tick
  \/ \E t \in Sequential :
       \/ \E script \in Scripts : pyats_run_dynamic_test(t, script)
       \/ StepScript(t)

\* The script runs start with either value of the retention flag; no device
\* operation runs
InitScript ==
  /\ now = 0
  /\ _CACHE_TTL_S = 1
  /\ _CONN_CACHE_TTL_S = 0
  /\ _TESTBED_CACHE = [loaded_at |-> 0, tb |-> 0, devices |-> {}]
  /\ _CONN_CACHE = [n \in {} |-> 0]
  /\ connected = {}
  /\ th = [t \in Threads |-> IdleThread]
  /\ KEEP_ARTIFACTS \in BOOLEAN
  /\ disk = EmptyDisk
  /\ fn = NoCall

SpecScript == InitScript /\ [][NextScript]_vars

\* Two concurrent callers of the script tool, with scripts that pass the gate
NextScriptConc ==
  \/ Tick
  \/ \E t \in Threads :
       \/ pyats_run_dynamic_test(t, SafeScript)
       \/ StepScript(t)

\* The concurrent script runs keep their artifacts
InitScriptConc == InitScript /\ KEEP_ARTIFACTS

SpecScriptConc == InitScriptConc /\ [][NextScriptConc]_vars

(***************************************************************************)
(* The validator, the normalizer and the gate called by themselves         *)
(***************************************************************************)
\* Config inputs have up to MaxLines lines
MaxLines == 2

\* The commands given to validate_show_command: a beginning and two
\* continuations
CommandHeads ==
  { <<"s","h","o","w">>, <<"S","h","o","w">>, <<"S","H","O","W">>,
    <<" ","s","h","o","w">>, <<"s","h","o">>, <<>>, <<"s","h","o","w","x">>,
    <<"n","o"," ","s","h","o","w">> }
CommandParts ==
  { <<>>, <<" ","v","e","r">>, <<" ","c","o","n","f">>,
    <<" ","C","O","N","F"," ","t">>, <<" ","c","o","n","f","i","g">>,
    <<" ","c","o","p","y","-","x">>, <<" ","x","_","w","r","i","t","e">>,
    <<" ","a","|","b">>, <<" ",">","f">>, <<" ","<","f">>,
    <<" ","r","e","l","o","a","d">>, <<" ","e","r","a","s","e",".">>,
    <<" ","d","e","l","e","t","e">>, <<" ","w","r","i","t","e">>,
    <<" ","c","o","n","f","i","g","u","r","e">>, <<" ","c","o","p","y">> }
Commands ==
  {h \o p1 \o p2 : h \in CommandHeads, p1 \in CommandParts, p2 \in CommandParts}

\* The lines of the config inputs
ConfigLines ==
  { <<"c","o","n","f"," ","t">>, <<"E","N","D">>, <<" ","e","n","d"," ">>,
    <<"C","o","n","f","i","g","u","r","e"," ","T","e","r","m","i","n","a","l">>,
    <<"i","n","t"," ","g","0">>, <<" ","n","o"," ","s","h","u","t">>,
    <<" "," ","e","x","i","t">>, <<"e","x","i","t">>, <<>>, <<" "," ">>,
    <<"a",";","e","n","d",";","b">>,
    <<"c","o","n","f"," ","t",";"," ","i","n","t"," ","g","0"," ",";">>,
    <<"c","o","n","f","i","g"," ","t",";">>, <<"x","\r","\n">>,
    <<"\t","m","t","u"," ","9">> }

\* The config inputs: None, every list of up to MaxLines lines, and the
\* text of each list, its lines joined by "\n"
ConfigLists == UNION {[1..n -> ConfigLines] : n \in 0..MaxLines}
ConfigInputs ==
  {ConfigNone}
    \cup {ConfigList(ls) : ls \in ConfigLists}
    \cup {ConfigText(Join(ls, "\n")) : ls \in ConfigLists}

\* The scripts given to reject_unsafe_script: one line or two
GateLines ==
  { <<"i","m","p","o","r","t"," ","s","o","c","k","e","t">>,
    <<"I","m","p","o","r","t"," ","R","e","q","u","e","s","t","s">>,
    <<"f","r","o","m"," ","u","r","l","l","i","b"," ","i","m","p","o","r","t"," ","x">>,
    <<"i","m","p","o","r","t"," ","h","t","t","p","x">>,
    <<" "," ","i","m","p","o","r","t"," ","t","e","l","n","e","t","l","i","b">>,
    <<"F","R","O","M"," ","P","a","r","a","m","i","k","o">>,
    <<"i","m","p","o","r","t"," ","n","e","t","m","i","k","o">>,
    <<"i","m","p","o","r","t"," ","o","s",","," ","s","o","c","k","e","t">>,
    <<"f","r","o","m"," ","s","o","c","k","e","t","s","e","r","v","e","r"," ","i","m","p","o","r","t"," ","x">>,
    <<"#"," ","f","r","o","m"," ","h","t","t","p","x">>,
    <<"d",".","c","o","n","n","e","c","t","(",")">>,
    <<"d",".","D","i","s","c","o","n","n","e","c","t","(",")">>,
    <<"T","e","s","t","b","e","d","(","f",")">>,
    <<"l","o","a","d","e","r",".","l","o","a","d","(","f",")">>,
    <<"l","o","a","d","e","r","X","l","o","a","d">>,
    <<"s","u","b","p","r","o","c","e","s","s",".","r","u","n">>,
    <<"o","s",".","s","y","s","t","e","m">>,
    <<"y","=","E","V","A","L","(","1",")">>,
    <<"e","x","e","c"," ","(","1",")">>,
    <<"_","_","i","m","p","o","r","t","_","_">>, <<"p","a","s","s">>,
    <<"x"," ","="," ","1">> }
GateScripts ==
  GateLines \cup {a \o <<"\n">> \o b : a \in GateLines, b \in GateLines}

\* What a call of a function by itself leaves alone
NotFn == <<now, _CACHE_TTL_S, _CONN_CACHE_TTL_S, KEEP_ARTIFACTS, disk,
           _TESTBED_CACHE, _CONN_CACHE, connected, th>>

\* validate_show_command(command) is called
validate_call ==
  /\ fn.pc = "validate"
  /\ fn' = [fn EXCEPT !.pc = "validated", !.ret = validate_show_command(fn.arg)]
  /\ UNCHANGED NotFn

\* _normalize_config_lines(config_commands) is called
normalize_call ==
  /\ fn.pc = "normalize"
  /\ fn' = [fn EXCEPT !.pc = "normalized",
                      !.ret = _normalize_config_lines(fn.arg)]
  /\ UNCHANGED NotFn

\* _normalize_config_lines is called on the list it has returned
normalize_again ==
  /\ fn.pc = "normalized"
  /\ fn' = [fn EXCEPT !.pc = "again",
                      !.again = _normalize_config_lines(ConfigList(fn.ret))]
  /\ UNCHANGED NotFn

\* reject_unsafe_script(script) is called
gate_call ==
  /\ fn.pc = "gate"
  /\ fn' = [fn EXCEPT !.pc = "gated", !.ret = reject_unsafe_script(fn.arg)]
  /\ UNCHANGED NotFn

NextFn == validate_call \/ normalize_call \/ normalize_again \/ gate_call

\* One call of one of the functions, on one of the inputs
InitFn ==
  /\ now = 0
  /\ _CACHE_TTL_S = 1
  /\ _CONN_CACHE_TTL_S = 0
  /\ _TESTBED_CACHE = [loaded_at |-> 0, tb |-> 0, devices |-> {}]
  /\ _CONN_CACHE = [n \in {} |-> 0]
  /\ connected = {}
  /\ th = [t \in Threads |-> IdleThread]
  /\ KEEP_ARTIFACTS = TRUE
  /\ disk = EmptyDisk
  /\ fn \in {[NoCall EXCEPT !.pc = "validate", !.arg = c] : c \in Commands}
         \cup {[NoCall EXCEPT !.pc = "normalize", !.arg = x] :
                 x \in ConfigInputs}
         \cup {[NoCall EXCEPT !.pc = "gate", !.arg = x] : x \in GateScripts}

SpecFn == InitFn /\ [][NextFn]_vars

(***************************************************************************)
(* Claims                                                                  *)
(***************************************************************************)
\* The positions inside _get_device
InGetDevice == {"load", "loading", "lookup", "connect", "insert"}

\* C1: while two callers are inside _get_device for the same device name at
\* the same time, no more than one device.connect call has been made by the
\* two calls together.
C1_OneConnectCall ==
  \A t1, t2 \in Threads :
    ( /\ t1 # t2
      /\ th[t1].pc \in InGetDevice
      /\ th[t2].pc \in InGetDevice
      /\ th[t1].device_name = th[t2].device_name )
    => th[t1].nConnect + th[t2].nConnect <= 1

\* C2: two operations on the same device name are never both in their
\* execute phase.
C2_ExecuteSerialized ==
  \A t1, t2 \in Threads :
    ( /\ t1 # t2
      /\ th[t1].pc = "exec"
      /\ th[t2].pc = "exec" )
    => th[t1].device_name # th[t2].device_name

\* The device objects something refers to: a thread, the cache, or the set
\* of connected sessions
LiveDevices ==
  ( {th[t].dev : t \in Threads} \cup {th[t].device : t \in Threads}
      \cup {_CONN_CACHE[n].device : n \in DOMAIN _CONN_CACHE}
      \cup connected ) \ {NoDevice}

\* C3: with the connection cache enabled, _disconnect_device without force
\* never calls device.disconnect: from every reachable state and for every
\* live device object it leaves the connected sessions and the cache entries as
\* they are, except last_used of the entry of the device's name, and a
\* second call right after the first leaves what one call leaves. No
\* operation's release has called device.disconnect.
C3_ReleaseOnlyRefreshes ==
  _CONN_CACHE_TTL_S > 0 =>
    /\ \A d \in LiveDevices, raises \in BOOLEAN :
         LET once == _disconnect_device(d, FALSE, _CONN_CACHE, connected,
                                        _CONN_CACHE_TTL_S, now, raises)
         IN  /\ ~once.disconnect
             /\ once.connected = connected
             /\ DOMAIN once.cache = DOMAIN _CONN_CACHE
             /\ \A n \in DOMAIN _CONN_CACHE :
                  /\ once.cache[n].device = _CONN_CACHE[n].device
                  /\ n # d.name => once.cache[n] = _CONN_CACHE[n]
             /\ \A later \in now..MaxClock :
                  _disconnect_device(d, FALSE, once.cache, once.connected,
                                     _CONN_CACHE_TTL_S, later, raises)
                    = _disconnect_device(d, FALSE, _CONN_CACHE, connected,
                                         _CONN_CACHE_TTL_S, later, raises)
    /\ \A t \in Threads :
         th[t].pc = "done" => th[t].nDisconnect = 0 /\ ~th[t].disconnectRaised

\* An operation has released a connected session at a later clock reading
\* than its acquire: the session is still connected and cached, last_used
\* refreshed
C3_Witness ==
  \E t \in Threads :
    /\ _CONN_CACHE_TTL_S > 0
    /\ th[t].pc = "done"
    /\ th[t].nRelease = 1
    /\ th[t].device \in connected
    /\ th[t].device_name \in DOMAIN _CONN_CACHE
    /\ _CONN_CACHE[th[t].device_name].device = th[t].device
    /\ _CONN_CACHE[th[t].device_name].last_used = now
    /\ now > 0

\* C4 as stated: with the connection cache disabled the cache is empty, and
\* the session of an operation that has returned is disconnected.
C4_DisconnectedAfterReturn ==
  _CONN_CACHE_TTL_S <= 0 =>
    /\ DOMAIN _CONN_CACHE = {}
    /\ \A t \in Threads :
         (th[t].pc = "done" /\ th[t].device # NoDevice)
           => th[t].device \notin connected

\* C4 as amended: with the connection cache disabled the cache is empty, and
\* an operation that has returned has released its session once; if the
\* session is still connected, the release has called device.disconnect and
\* that call raised.
C4_DisconnectCalledAfterReturn ==
  _CONN_CACHE_TTL_S <= 0 =>
    /\ DOMAIN _CONN_CACHE = {}
    /\ \A t \in Threads :
         (th[t].pc = "done" /\ th[t].device # NoDevice)
           => /\ th[t].nRelease = 1
              /\ th[t].device \in connected
                   => th[t].nDisconnect = 1 /\ th[t].disconnectRaised
              /\ th[t].nDisconnect = 1 /\ ~th[t].disconnectRaised
                   => th[t].device \notin connected

\* An operation has completed with the cache disabled: its release called
\* device.disconnect and the session is disconnected
C4_Witness ==
  \E t \in Threads :
    /\ _CONN_CACHE_TTL_S <= 0
    /\ th[t].pc = "done"
    /\ th[t].outcome.status = "completed"
    /\ th[t].nDisconnect = 1
    /\ ~th[t].disconnectRaised
    /\ th[t].device \notin connected

\* C5: an operation that acquired a session has not yet released it while
\* it executes, and has called _disconnect_device on it exactly once when it
\* returns, whether it completed or failed; an operation that acquired no
\* session has released none.
C5_ReleasedExactlyOnce ==
  \A t \in Threads :
    /\ th[t].pc \in {"exec", "release"}
         => th[t].device # NoDevice /\ th[t].nRelease = 0
    /\ th[t].pc = "done"
         => th[t].nRelease = (IF th[t].device # NoDevice THEN 1 ELSE 0)

\* A ping whose execute timed out has returned, its session released once
C5_Witness ==
  \E t \in Threads :
    /\ th[t].pc = "done"
    /\ th[t].kind = "ping"
    /\ th[t].raised = "timeout"
    /\ th[t].device # NoDevice
    /\ th[t].nRelease = 1

\* C6: when an operation has returned an error outcome after a connection
\* or execution error, its session is not connected any more (unless
\* device.disconnect itself raised), whatever the cache TTL is.
C6_ForceReleasedOnError ==
  \A t \in Threads :
    ( /\ th[t].pc = "done"
      /\ th[t].raised \in {"connect error", "execute error", "timeout",
                           "connection lost"}
      /\ th[t].device # NoDevice
      /\ ~th[t].disconnectRaised )
    => th[t].device \notin connected

\* C7: a show command whose device disconnected during execute returns
\* status error with the device name and the command, and _get_device never
\* returns a session that is not connected: the operation at its execute
\* step holds a connected session.
C7_BrokenSessionNotReused ==
  \A t \in Threads :
    /\ ( /\ th[t].pc \in {"release", "done"}
         /\ th[t].kind = "show"
         /\ th[t].raised = "connection lost" )
       => /\ {"status", "device", "command", "error"} \subseteq DOMAIN th[t].outcome
          /\ th[t].outcome.status = "error"
          /\ th[t].outcome.device = th[t].device_name
          /\ th[t].outcome.command = th[t].command
    /\ th[t].pc = "exec" => th[t].device \in connected

\* A show command finds in the cache the session that an earlier operation
\* left disconnected, and has connected it again
C7_Witness ==
  \E t \in Threads :
    /\ _CONN_CACHE_TTL_S > 0
    /\ th[t].kind = "show"
    /\ th[t].pc = "insert"
    /\ th[t].nConnect = 1
    /\ th[t].device_name \in DOMAIN _CONN_CACHE
    /\ _CONN_CACHE[th[t].device_name].device = th[t].dev

\* C8: an operation that takes a command or a config and returns status
\* error carries the device name, the command or the config lines, and an
\* error string.
C8_ErrorOutcomeShape ==
  \A t \in Threads :
    ( /\ th[t].pc = "done"
      /\ th[t].kind \in {"show", "configure", "ping", "linux"}
      /\ th[t].outcome.status = "error" )
    => /\ {"device", "error"} \subseteq DOMAIN th[t].outcome
       /\ {"command", "lines_sent"} \cap DOMAIN th[t].outcome # {}

\* C9: when _load_testbed has returned a testbed without the device name,
\* _get_device raises the not-found error at once: the operation fails
\* holding no session, and the step changes neither the connection cache nor
\* the connection state of any device. The not-found error is raised in that
\* case only.
C9_NotFoundTouchesNothing ==
  [][\A t \in Threads :
       ( /\ th[t].pc \in {"load", "loading"}
         /\ th'[t].pc \notin {"load", "loading"}
         /\ th[t].kind # "list_devices"
         /\ th'[t].raised # "load error" )
       => /\ th[t].device_name \notin _TESTBED_CACHE'.devices
            => /\ th'[t].pc = "done"
               /\ th'[t].raised = "not found in testbed"
               /\ th'[t].outcome.status = "error"
               /\ th'[t].device = NoDevice
               /\ th'[t].nConnect = 0
               /\ _CONN_CACHE' = _CONN_CACHE
               /\ connected' = connected
          /\ th'[t].raised = "not found in testbed"
            => th[t].device_name \notin _TESTBED_CACHE'.devices
    ]_vars

\* An operation on a device that is no longer in the testbed has failed
\* with not-found, while the cache still holds that device's connected
\* session
C9_Witness ==
  \E t \in Threads :
    /\ th[t].pc = "done"
    /\ th[t].raised = "not found in testbed"
    /\ th[t].device_name \in DOMAIN _CONN_CACHE
    /\ _CONN_CACHE[th[t].device_name].device \in connected

\* C10: with a testbed TTL <= 0, every call of _load_testbed calls
\* loader.load.
C10_ReloadsOnEveryCall ==
  [][\A t \in Threads :
       (_CACHE_TTL_S <= 0 /\ th[t].pc = "load")
         => th'[t].pc \in {"load", "loading"}
    ]_vars

\* C11: with a testbed TTL > 0 and one caller at a time, a call of
\* _load_testbed made no more than TTL after the last load returns the
\* cached testbed and does not call loader.load; a call made more than TTL
\* after it calls loader.load, once, and returns the new testbed, whose
\* loaded_at is the clock reading of the call. The testbed a call returns is
\* never older than TTL at the clock reading of the call.
C11_CachedWithinTTL ==
  [][\A t \in Threads :
       /\ ( /\ _CACHE_TTL_S > 0
            /\ th[t].pc = "load"
            /\ th'[t].pc # "load" )
          => IF /\ _TESTBED_CACHE.tb # 0
                /\ now - _TESTBED_CACHE.loaded_at <= _CACHE_TTL_S
               THEN /\ th'[t].pc # "loading"
                    /\ _TESTBED_CACHE' = _TESTBED_CACHE
                    /\ th'[t].pc = "lookup"
                         => th'[t].dev.gen = _TESTBED_CACHE.tb
                    /\ th'[t].kind = "list_devices"
                         => th'[t].outcome.devices = _TESTBED_CACHE.devices
               ELSE /\ th'[t].pc = "loading"
                    /\ th'[t].now0 = now
                    /\ _TESTBED_CACHE' = _TESTBED_CACHE
       /\ ( /\ _CACHE_TTL_S > 0
            /\ th[t].pc = "loading"
            /\ th'[t].pc # "loading"
            /\ th'[t].raised # "load error" )
          => /\ _TESTBED_CACHE'.tb \notin {0, _TESTBED_CACHE.tb}
             /\ _TESTBED_CACHE'.loaded_at = th[t].now0
             /\ th'[t].pc = "lookup" => th'[t].dev.gen = _TESTBED_CACHE'.tb
             /\ th'[t].kind = "list_devices"
                  => th'[t].outcome.devices = _TESTBED_CACHE'.devices
       /\ ( /\ _CACHE_TTL_S > 0
            /\ th[t].pc \in {"load", "loading"}
            /\ th'[t].pc \notin {"load", "loading"}
            /\ th'[t].raised # "load error" )
          => (IF th[t].pc = "load" THEN now ELSE th[t].now0)
               - _TESTBED_CACHE'.loaded_at <= _CACHE_TTL_S
    ]_vars

\* A call finds the cached testbed older than the TTL and is inside
\* loader.load
C11_Witness ==
  \E t \in Threads :
    /\ _CACHE_TTL_S > 0
    /\ th[t].pc = "loading"
    /\ _TESTBED_CACHE.tb # 0
    /\ th[t].now0 - _TESTBED_CACHE.loaded_at > _CACHE_TTL_S

\* C12: when loader.load raises during an operation, the operation returns
\* an error outcome holding no session, and the step changes neither the
\* testbed cache (testbed and loaded_at) nor the connection cache nor the
\* connection state of any device.
C12_ReloadFailureKeepsCaches ==
  [][\A t \in Threads :
       (th[t].pc = "loading" /\ th'[t].raised = "load error")
         => /\ th'[t].pc = "done"
            /\ th'[t].outcome.status = "error"
            /\ "error" \in DOMAIN th'[t].outcome
            /\ th'[t].device = NoDevice
            /\ _TESTBED_CACHE' = _TESTBED_CACHE
            /\ _CONN_CACHE' = _CONN_CACHE
            /\ connected' = connected
    ]_vars

\* An operation has failed on the reload of an expired testbed; the cache
\* still holds the testbed loaded before, and the connection cache a session
C12_Witness ==
  \E t \in Threads :
    /\ th[t].pc = "done"
    /\ th[t].raised = "load error"
    /\ _TESTBED_CACHE.tb # 0
    /\ DOMAIN _CONN_CACHE # {}

\* The positions inside _run_test_script
InRun == {"mkdir", "write", "spawn", "retain"}

C14_NoArtifactsAfterFailedRun ==
  \A t \in Threads :
    ( /\ ~KEEP_ARTIFACTS
      /\ th[t].kind = "script"
      /\ th[t].pc = "done"
      /\ th[t].run_dir # NoDir
      /\ th[t].outcome.status = "error" )
    => th[t].run_dir \notin disk.dirs

\* C15: two script runs never have the same run directory.
C15_OwnDirectory ==
  \A t1, t2 \in Threads :
    ( /\ t1 # t2
      /\ th[t1].kind = "script" /\ th[t1].run_dir # NoDir
      /\ th[t2].kind = "script" /\ th[t2].run_dir # NoDir )
    => th[t1].run_dir # th[t2].run_dir

\* C16: when the subprocess has exited within the timeout, whatever its
\* return code, the run returns status completed with the return code, the
\* verdict, stdout, stderr, the artifact directory and the three paths; the
\* report is None when the report file is missing, empty or not parsable,
\* and the parsed data otherwise.
C16_CompletedForEveryExitCode ==
  \A t \in Threads :
    /\ (th[t].kind = "script" /\ th[t].pc = "retain")
       => /\ th[t].outcome.status = "completed"
          /\ {"returncode", "overall_result", "stdout", "stderr", "report",
              "artifacts_dir", "paths"} \subseteq DOMAIN th[t].outcome
          /\ th[t].outcome.returncode = th[t].proc.returncode
          /\ th[t].outcome.stdout = th[t].proc.stdout
          /\ th[t].outcome.overall_result \in {"PASSED", "FAILED", "UNKNOWN"}
          /\ th[t].proc.report \in {"missing", "empty", "invalid"}
               => th[t].outcome.report = None
          /\ th[t].proc.report = "valid" => th[t].outcome.report # None
          /\ th[t].outcome.artifacts_dir = th[t].run_dir
          /\ th[t].outcome.paths =
               [script |-> <<th[t].run_dir, ScriptFile>>,
                job |-> <<th[t].run_dir, JobFile>>,
                report |-> <<th[t].run_dir, ReportFile>>]
    /\ (th[t].kind = "script" /\ th[t].pc = "done" /\ th[t].raised = None
          /\ th[t].run_dir # NoDir)
       => th[t].outcome.status = "completed"

\* The subprocess has exited with return code 1 and left a report file that
\* is not JSON: the run is completed, its report None
C16_Witness ==
  \E t \in Threads :
    /\ th[t].kind = "script"
    /\ th[t].pc = "retain"
    /\ th[t].proc.returncode = 1
    /\ th[t].proc.report = "invalid"
    /\ th[t].outcome.status = "completed"
    /\ th[t].outcome.report = None

\* The characters of a word between word boundaries, and the characters of
\* a token when the hyphen belongs to it too
WordChars == LowerLetters \cup UpperLetters \cup Digits \cup {"_"}
HyphenWordChars == WordChars \cup {"-"}

\* A destructive keyword stands in s as a whole token, tokens being the
\* maximal runs of the characters chars
HasBlockWord(s, chars) ==
  \E i \in 1..Len(s) : \E j \in i..Len(s) :
    /\ SubSeq(s, i, j) \in SHOW_BLOCK_WORDS
    /\ (i = 1 \/ s[i-1] \notin chars)
    /\ (j = Len(s) \/ s[j+1] \notin chars)

\* The first token of s is the word show
FirstTokenIsShow(s, chars) ==
  /\ StartsWith(s, <<"s","h","o","w">>)
  /\ (Len(s) = 4 \/ s[5] \notin chars)

\* The reason the three rules give for the trimmed, lower-cased command s,
\* the first failing rule deciding
ShowRules(s, starts, chars) ==
  IF ~starts THEN "is not a 'show' command"
  ELSE IF \E ch \in {"|", ">", "<"} : Contains(s, ch)
    THEN "contains disallowed pipe/redirection"
  ELSE IF HasBlockWord(s, chars) THEN "contains disallowed term"
  ELSE "None"

\* C17 as stated: validate_show_command returns the reason of the first
\* failing rule among (1) the command does not start with the token show,
\* (2) it has one of | > <, (3) one of its tokens, cut at word boundaries, is
\* a destructive keyword; and no error exactly when the three rules pass.
C17_ThreeRulesOnWords ==
  fn.pc = "validated" =>
    LET s == Lower(Strip(fn.arg))
    IN  fn.ret.reason = ShowRules(s, FirstTokenIsShow(s, WordChars), WordChars)

\* C17, amended: rule (1) is a prefix test (the trimmed, lower-cased command
\* begins with the four characters show, whatever follows) and the tokens of
\* rule (3) are the maximal runs of letters, digits, underscores and hyphens,
\* so a keyword joined to other text by a hyphen is not a match.  With these
\* the reason returned is that of the first failing rule, and no error is
\* returned exactly when the three rules pass.
C17_ThreeRulesOnTokens ==
  fn.pc = "validated" =>
    LET s == Lower(Strip(fn.arg))
    IN  /\ fn.ret.reason =
             ShowRules(s, StartsWith(s, <<"s","h","o","w">>), HyphenWordChars)
        /\ (fn.ret = NoError) <=>
             /\ StartsWith(s, <<"s","h","o","w">>)
             /\ ~ \E ch \in {"|", ">", "<"} : Contains(s, ch)
             /\ ~HasBlockWord(s, HyphenWordChars)

\* A show command written in capitals or with blanks around it, holding both
\* a pipe and a destructive keyword, was rejected for the pipe
C17_Witness ==
  /\ fn.pc = "validated"
  /\ LET s == Lower(Strip(fn.arg))
     IN  /\ fn.ret.reason = "contains disallowed pipe/redirection"
         /\ HasBlockWord(s, HyphenWordChars)
         /\ s # fn.arg

\* C18: no line of the output of _normalize_config_lines is, once trimmed
\* and lower-cased, one of the wrapper strings configure terminal, conf t,
\* config t, configure t, end, whether the input is a list or a text block.
C18_NoWrapperInOutput ==
  fn.pc \in {"normalized", "again"} =>
    \A i \in 1..Len(fn.ret) : Lower(Strip(fn.ret[i])) \notin _WRAPPER_LINES

\* An input with a wrapper line of its own, or a wrapper among the parts of a
\* semicolon line, was normalized to a list that is not empty
C18_Witness ==
  /\ fn.pc = "normalized"
  /\ fn.ret # <<>>
  /\ LET ls == IF fn.arg.type = "list" THEN fn.arg.lines
               ELSE splitlines(fn.arg.text)
     IN  /\ \E i \in 1..Len(ls) : Lower(Strip(ls[i])) \in _WRAPPER_LINES
         /\ \E i \in 1..Len(ls) : Contains(ls[i], ";")

\* The text has a line that is not blank and starts at the first column, or
\* has no line that is not blank: no indentation is common to its lines
NoCommonIndent(text) ==
  LET ls    == SplitOn(text, "\n")
      solid == {i \in 1..Len(ls) : LeadingBlanks(ls[i]) # ls[i]}
  IN  solid = {} \/ \E i \in solid : LeadingBlanks(ls[i]) = <<>>

\* C19 as stated: normalizing the list that _normalize_config_lines returned
\* gives that list again, and a text block normalizes to the same sequence
\* as the list of its lines.
C19_RoundTrip ==
  fn.pc = "again" =>
    /\ fn.again = fn.ret
    /\ fn.arg.type = "str" =>
         fn.ret = _normalize_config_lines(ConfigList(splitlines(fn.arg.text)))

\* C19, amended: normalizing the list that _normalize_config_lines returned
\* gives that list again; a text block whose lines share no leading
\* indentation normalizes to the same sequence as the list of its lines, and
\* any text block normalizes as the list of its lines does once the
\* indentation common to them is removed from each.
C19_RoundTripDedented ==
  fn.pc = "again" =>
    /\ fn.again = fn.ret
    /\ fn.arg.type = "str" =>
         /\ NoCommonIndent(fn.arg.text) =>
              fn.ret =
                _normalize_config_lines(ConfigList(splitlines(fn.arg.text)))
         /\ fn.ret =
              _normalize_config_lines(
                ConfigList(splitlines(dedent(fn.arg.text))))

\* A text block of two lines without common indentation, one of them a
\* wrapper or a semicolon line, was normalized twice
C19_Witness ==
  /\ fn.pc = "again"
  /\ fn.arg.type = "str"
  /\ NoCommonIndent(fn.arg.text)
  /\ Len(splitlines(fn.arg.text)) = 2
  /\ fn.ret # <<>>
  /\ fn.ret # splitlines(fn.arg.text)

\* The pieces of the lines ls in order: a line without a semicolon is one
\* piece, its line terminators at the end removed and nothing else; a line
\* with semicolons gives its parts, trimmed
RECURSIVE Pieces(_)
Pieces(ls) ==
  IF ls = <<>> THEN <<>>
  ELSE LET s == RStripChars(Head(ls), {"\r", "\n"})
           parts == SplitOn(s, ";")
       IN  (IF Contains(s, ";")
              THEN [n \in 1..Len(parts) |-> Strip(parts[n])]
              ELSE <<s>>)
           \o Pieces(Tail(ls))

\* The pieces of ls that are neither blank nor a wrapper, in their order
KeptPieces(ls) ==
  SelectSeq(Pieces(ls),
            LAMBDA p : Strip(p) # <<>> /\ Lower(Strip(p)) \notin _WRAPPER_LINES)

\* Every line of ls that is exit once trimmed stands in out with the leading
\* whitespace it has in ls
ExitsKept(ls, out) ==
  \A i \in 1..Len(ls) :
    Strip(ls[i]) = <<"e","x","i","t">> =>
      \E j \in 1..Len(out) : out[j] = RStripChars(ls[i], {"\r", "\n"})

\* C20 as stated: the output of _normalize_config_lines is the input lines
\* in their order with only the blank and the wrapper lines removed; a line
\* without a semicolon keeps its leading whitespace exactly, and a line that
\* is exit once trimmed is never dropped.
C20_InputLinesInOrder ==
  fn.pc = "normalized" /\ fn.arg.type # "None" =>
    LET ls == IF fn.arg.type = "list" THEN fn.arg.lines
              ELSE splitlines(fn.arg.text)
    IN  /\ fn.ret = KeptPieces(ls)
        /\ ExitsKept(ls, fn.ret)

\* C20, amended: the same, the input lines of a text block being its lines
\* after the indentation common to its non-blank lines has been removed from
\* each; the lines of a list are taken as they are.
C20_DedentedLinesInOrder ==
  fn.pc = "normalized" /\ fn.arg.type # "None" =>
    LET ls == IF fn.arg.type = "list" THEN fn.arg.lines
              ELSE splitlines(dedent(fn.arg.text))
    IN  /\ fn.ret = KeptPieces(ls)
        /\ ExitsKept(ls, fn.ret)

\* An indented text block was normalized and its exit line is in the output,
\* indented under the line before it
C20_Witness ==
  /\ fn.pc = "normalized"
  /\ fn.arg.type = "str"
  /\ ~NoCommonIndent(fn.arg.text)
  /\ Len(fn.ret) = 2
  /\ Strip(fn.ret[2]) = <<"e","x","i","t">>
  /\ fn.ret[2] # Strip(fn.ret[2])

\* The module a name of an import statement begins with: its characters up
\* to the first one that is not of an identifier
ModuleRoot(s) ==
  LET stop == {i \in 1..Len(s) : s[i] \notin WordChars}
  IN  IF stop = {} THEN s ELSE SubSeq(s, 1, SetMin(stop) - 1)

\* The line is an import statement of the module name: import with name
\* among the modules it lists, or from name import
ImportsModule(line, name) ==
  LET l    == Strip(Lower(line))
      rest(k) == SubSeq(l, k, Len(l))
  IN  \/ /\ StartsWith(l, <<"i","m","p","o","r","t"," ">>)
         /\ \E part \in {SplitOn(rest(8), ",")[n] :
                           n \in 1..Len(SplitOn(rest(8), ","))} :
              ModuleRoot(Strip(part)) = name
      \/ /\ StartsWith(l, <<"f","r","o","m"," ">>)
         /\ ModuleRoot(Strip(rest(6))) = name

\* C21 as stated: reject_unsafe_script returns a reason for every script
\* with an import of a banned module or with a banned pattern, ignoring
\* case; the reason names a banned import when there is one, the first of the
\* list, and else the first banned pattern; and it returns no reason for a
\* script that has not even the text of a banned import or pattern.
C21_GateRejectsBannedImports ==
  fn.pc = "gated" =>
    LET ls    == splitlines(fn.arg)
        stmts == {n \in 1..Len(BANNED_IMPORTS) :
                    \E i \in 1..Len(ls) :
                      ImportsModule(ls[i], BANNED_IMPORTS[n])}
        texts == {n \in 1..Len(BANNED_IMPORTS) :
                    \/ HasSubstring(Lower(fn.arg),
                         <<"i","m","p","o","r","t"," ">> \o BANNED_IMPORTS[n])
                    \/ HasSubstring(Lower(fn.arg),
                         <<"f","r","o","m"," ">> \o BANNED_IMPORTS[n])}
        pats  == {n \in 1..Len(BANNED_PATTERNS) :
                    HasSubstring(Lower(fn.arg), Lower(BANNED_PATTERNS[n]))}
    IN  /\ stmts # {} \/ pats # {} => fn.ret # NoReason
        /\ stmts = {} /\ texts = {} /\ pats = {} => fn.ret = NoReason
        /\ stmts # {} => fn.ret.kind # "banned pattern"
        /\ fn.ret.kind = "banned import" =>
             fn.ret.name = BANNED_IMPORTS[SetMin(stmts \cup texts)]
        /\ fn.ret.kind = "banned pattern" =>
             fn.ret.name = BANNED_PATTERNS[SetMin(pats)]

LiveEntry(name, t0) ==
  /\ name \in DOMAIN _CONN_CACHE
  /\ t0 - _CONN_CACHE[name].last_used <= _CONN_CACHE_TTL_S
  /\ _CONN_CACHE[name].device \in connected

C24_NoDisconnectWhileExecuting ==
  [][\A t \in Threads : \A u \in Threads \ {t} :
       ~ ( /\ th[t].pc = "exec"
           /\ th'[t] = th[t]
           /\ th[u].pc \in {"release", "lookup"}
           /\ th'[u].pc # th[u].pc
           /\ th[t].device \in connected
           /\ th[t].device \notin connected' )
    ]_vars

\* C25: in every state no two connected sessions are of one device name;
\* and with connection caching on and no operation in progress, every
\* connected session is the one the cache entry of its device name holds.
C25_OneSessionPerDevice ==
  /\ \A d1 \in connected : \A d2 \in connected :
       d1.name = d2.name => d1 = d2
  /\ ( /\ _CONN_CACHE_TTL_S > 0
       /\ \A t \in Threads : th[t].pc = "idle" )
     => \A d \in connected :
          /\ d.name \in DOMAIN _CONN_CACHE
          /\ _CONN_CACHE[d.name].device = d

\* The positions of an operation from the call of _get_device to its
\* `finally` clause
PastValidation ==
  {"load", "loading", "lookup", "connect", "insert", "exec", "release"}

\* C26: a show operation whose command validate_show_command rejects, and a
\* configure operation whose payload normalizes to no lines, return a dict
\* of status error at once: they hold no session, have called no connect,
\* and leave the testbed cache, the connection cache and the connections as
\* they were; and no show operation with a rejected command, and no
\* configure operation without lines, is ever past its validation.
C26_RejectedNeverReachesDevice ==
  [][\A t \in Threads :
       LET rejected ==
             \/ /\ th'[t].kind = "show"
                /\ validate_show_command(th'[t].command) # NoError
             \/ /\ th'[t].kind = "configure"
                /\ th'[t].lines = <<>>
       IN  /\ ( th[t].pc = "idle" /\ th'[t].pc # "idle" /\ rejected )
              => /\ th'[t].pc = "done"
                 /\ th'[t].outcome.status = "error"
                 /\ th'[t].device = NoDevice
                 /\ th'[t].dev = NoDevice
                 /\ th'[t].nConnect = 0
                 /\ UNCHANGED <<_TESTBED_CACHE, _CONN_CACHE, connected>>
           /\ rejected => th'[t].pc \notin PastValidation
           /\ ( th[t].pc = "done" /\ th'[t] # th[t] ) => th'[t].pc = "idle"
    ]_vars

\* A show command with a pipe was rejected while the cache holds a connected
\* session of its device, last used before now
C26_Witness ==
  \E t \in Threads :
    /\ th[t].pc = "done"
    /\ th[t].kind = "show"
    /\ th[t].outcome.status = "error"
    /\ th[t].outcome.error = "contains disallowed pipe/redirection"
    /\ th[t].device_name \in DOMAIN _CONN_CACHE
    /\ _CONN_CACHE[th[t].device_name].device \in connected
    /\ _CONN_CACHE[th[t].device_name].last_used < now

============================================================================
